---- MODULE Spec2Model ----
\* Animal registry demo (src/main.cpp): the AnimalContainer, the AnimalFactory,
\* the AnimalNotifier / AnimalDetailsObserver pair and the menu loop of main(),
\* with the worker thread it spawns and joins in every iteration.
EXTENDS Integers, Sequences, FiniteSets, TLC

\* ---------------------------------------------------------------- bounds
MaxAnimals == 3        \* Animal objects alive at once
MaxIter == 5           \* menu iterations of one run
MaxObservers == 3      \* registrations held by one notifier
MaxContainers == 5     \* AnimalContainer objects ever constructed
NumThreads == 2        \* threads calling AnimalDetailsObserver::update
MaxCalls == 2          \* update calls made by each such thread

\* ---------------------------------------------------------------- inputs
\* Words typed at the prompts. "Bird" stands for every word that is neither
\* "Dog" nor "Cat" (the empty word of a failed read included).
Tags == {"Dog", "Cat", "Bird"}
Names == {"Rex", "Tom"}
\* Menu numbers; 0 and 8 stand for every number outside 1..7.
Choices == 0..8
ObserverIds == {1, 2}
Threads == 1..NumThreads
NoAnimal == 0          \* an empty shared_ptr<Animal>

\* ---------------------------------------------------------------- animals
\* std::string operator< on the strings getType() returns: the characters'
\* codes, compared lexicographically.
Chars(s) ==
    CASE s = "Dog" -> <<68, 111, 103>>
      [] s = "Cat" -> <<67, 97, 116>>

RECURSIVE LexLess(_, _)
LexLess(a, b) ==
    IF b = <<>> THEN FALSE
    ELSE IF a = <<>> THEN TRUE
    ELSE IF Head(a) < Head(b) THEN TRUE
    ELSE IF Head(b) < Head(a) THEN FALSE
    ELSE LexLess(Tail(a), Tail(b))

StrLess(s, t) == LexLess(Chars(s), Chars(t))

\* Dog::Dog / Cat::Cat: an object of the class, holding the name.
Dog(n) == [class |-> "Dog", name |-> n]
Cat(n) == [class |-> "Cat", name |-> n]

\* Dog::getType / Cat::getType (virtual dispatch on the object's class).
getType(a) ==
    CASE a.class = "Dog" -> "Dog"
      [] a.class = "Cat" -> "Cat"

\* Dog::display / Cat::display: the line written to std::cout.
display(a) ==
    CASE a.class = "Dog" -> <<"Dog: ", a.name>>
      [] a.class = "Cat" -> <<"Cat: ", a.name>>

\* Dog::info / Cat::info: the line written to std::cout.
info(a) ==
    CASE a.class = "Dog" -> <<"Dog Info: ", a.name>>
      [] a.class = "Cat" -> <<"Cat Info: ", a.name>>

\* The std::invalid_argument thrown by the factory.
UnknownAnimalType == [what |-> "Unknown animal type"]

\* AnimalFactory::createAnimal with an unknown tag falling back to a Dog.
createAnimalDefaultsToDog(type, name) ==
    IF type = "Cat" THEN Cat(name) ELSE Dog(name)

\* AnimalFactory::createAnimal with the two branches' classes exchanged.
createAnimalSwapped(type, name) ==
    IF type = "Dog" THEN Cat(name)
    ELSE IF type = "Cat" THEN Dog(name)
    ELSE UnknownAnimalType

\* AnimalFactory::createAnimal: the object made, or the exception thrown.
createAnimal(type, name) ==
    IF type = "Dog" THEN Dog(name)
    ELSE IF type = "Cat" THEN Cat(name)
    ELSE UnknownAnimalType

Threw(r) == r = UnknownAnimalType

\* ---------------------------------------------------------------- container
\* A container is a sequence of shared_ptr (object ids); h is the heap the
\* ids point into.
Range(s) == {s[i] : i \in 1..Len(s)}

\* AnimalContainer::addAnimal inserting at the front.
addAnimalFront(c, a) == <<a>> \o c

\* AnimalContainer::addAnimal: push_back.
addAnimal(c, a) == Append(c, a)

RECURSIVE EraseFirst(_, _, _)
EraseFirst(c, h, tag) ==
    IF c = <<>> THEN <<>>
    ELSE IF getType(h[Head(c)]) = tag THEN Tail(c)
    ELSE <<Head(c)>> \o EraseFirst(Tail(c), h, tag)

\* AnimalContainer::removeAnimal erasing the first match only.
removeAnimalFirstOnly(c, h, tag) == EraseFirst(c, h, tag)

\* AnimalContainer::removeAnimal: std::erase_if with getType() == name.
RECURSIVE removeAnimal(_, _, _)
removeAnimal(c, h, tag) ==
    IF c = <<>> THEN <<>>
    ELSE IF getType(h[Head(c)]) = tag THEN removeAnimal(Tail(c), h, tag)
    ELSE <<Head(c)>> \o removeAnimal(Tail(c), h, tag)

\* AnimalContainer::displayAll: one display line per animal, in order.
displayAll(c, h) == [i \in 1..Len(c) |-> display(h[c[i]])]

\* AnimalContainer::displayAnimalInfo: the info lines of the matching animals.
RECURSIVE displayAnimalInfo(_, _, _)
displayAnimalInfo(c, h, tag) ==
    IF c = <<>> THEN <<>>
    ELSE IF getType(h[Head(c)]) = tag
         THEN <<info(h[Head(c)])>> \o displayAnimalInfo(Tail(c), h, tag)
    ELSE displayAnimalInfo(Tail(c), h, tag)

\* The comparator of sortAnimals: a->getType() < b->getType().
TypeLess(h, a, b) == StrLess(getType(h[a]), getType(h[b]))

IsSortedByType(c, h) ==
    \A i, j \in 1..Len(c) : i < j => ~TypeLess(h, c[j], c[i])

\* AnimalContainer::sortAnimals: std::ranges::sort with TypeLess. The result
\* is a permutation of the input ordered by the comparator; std::ranges::sort
\* does not promise the order of elements the comparator holds equivalent
\* (libstdc++ 12 reorders them from 17 elements on), so every such
\* permutation is an outcome.
sortAnimals(c, h) ==
    {p \in {[i \in 1..Len(c) |-> c[f[i]]] : f \in Permutations(1..Len(c))} :
        IsSortedByType(p, h)}

\* ---------------------------------------------------------------- state
VARIABLES
    pc,             \* main(): "menu", "switch", "add", "notify", "spawn", "join", "return", "done"
    choice,         \* main(): int choice
    type,           \* main(), case 1: std::string type
    name,           \* main(), cases 1, 3, 4: std::string name
    animal,         \* main(), case 1: auto animal (an object id, or NoAnimal)
    printed,        \* lines the switch of the current iteration wrote to std::cout,
                    \* the observers' lines included
    running,        \* main(): bool running
    iter,           \* iterations of the while loop begun so far
    pre,            \* container and heap as they were when the iteration began
    heap,           \* the Animal objects alive: id -> object
    container,      \* AnimalContainer::container of main's container
    instanceCount,  \* AnimalContainer::instanceCount
    live,           \* the AnimalContainer objects alive
    constructed,    \* AnimalContainer objects constructed so far
    destroyed,      \* AnimalContainer objects destroyed so far
    observers,      \* AnimalNotifier::observers
    ni,             \* AnimalNotifier::notify: position of the range-for
    calls,          \* the update(animal) calls made by observers, in order
    wpc,            \* std::thread t: "none", "started", "sleeping", "finished"
    shown,          \* what threadTest's displayAll wrote
    spawned,        \* std::thread objects started so far
    coutMutex,      \* coutMutex: 0 when free, else the thread holding it
    upc,            \* per thread: position in AnimalDetailsObserver::update
    todo,           \* per thread: update calls still to make
    uarg,           \* per thread: the animal passed to update
    out             \* std::cout as the observers write it, chunk by chunk (in
                    \* main(): the chunks of the current iteration)

mainVars == <<pc, choice, type, name, animal, printed, running, iter, pre>>
heapVars == <<heap, container>>
lifeVars == <<instanceCount, live, constructed, destroyed>>
notifierVars == <<observers, ni, calls>>
workerVars == <<wpc, shown, spawned>>
observerVars == <<coutMutex, upc, todo, uarg, out>>
vars == <<mainVars, heapVars, lifeVars, notifierVars, workerVars, observerVars>>

\* std::make_shared: a fresh object, here the lowest id not in use.
NewId(h) ==
    CHOOSE id \in 1..MaxAnimals :
        id \notin DOMAIN h /\ \A j \in (1..MaxAnimals) \ DOMAIN h : id <= j

\* The heap once the shared_ptrs erased from the container are gone.
Release(h, c) == [id \in Range(c) |-> h[id]]

\* AnimalNotifier::addObserver: push_back, duplicates kept.
addObserver(os, o) == Append(os, o)

\* No observer thread is running (main() starts none).
ObserversIdle ==
    /\ coutMutex = 0
    /\ upc = [t \in Threads |-> "idle"]
    /\ todo = [t \in Threads |-> 0]
    /\ uarg = [t \in Threads |-> NoAnimal]
    /\ out = <<>>

\* main(), lines 208-214: one container, one notifier with one registered
\* observer, running = true.
Init ==
    /\ pc = "menu" /\ choice = 0 /\ type = "" /\ name = ""
    /\ animal = NoAnimal /\ printed = <<>> /\ running = TRUE /\ iter = 0
    /\ heap = <<>> /\ container = <<>>
    /\ pre = [container |-> <<>>, heap |-> <<>>]
    /\ instanceCount = 1 /\ live = {1} /\ constructed = 1 /\ destroyed = 0
    /\ observers = addObserver(<<>>, 1) /\ ni = 0 /\ calls = <<>>
    /\ wpc = "none" /\ shown = <<>> /\ spawned = 0
    /\ ObserversIdle

\* ---------------------------------------------------------------- main()
\* menu(); std::cin >> choice; the iteration's locals are fresh.
ReadChoice ==
    /\ pc = "menu"
    /\ iter < MaxIter
    /\ \E c \in Choices : choice' = c
    /\ iter' = iter + 1
    /\ type' = "" /\ name' = "" /\ animal' = NoAnimal
    /\ printed' = <<>> /\ calls' = <<>> /\ out' = <<>>
    /\ pre' = [container |-> container, heap |-> heap]
    /\ pc' = "switch"
    /\ UNCHANGED <<running, heapVars, lifeVars, observers, ni, workerVars,
                   coutMutex, upc, todo, uarg>>

\* case 1, up to createAnimal: the object is made, or the exception is thrown
\* and caught, its what() printed.
CreateAnimal ==
    /\ pc = "switch" /\ choice = 1
    /\ \E ty \in Tags, nm \in Names :
        LET r == createAnimal(ty, nm) IN
        /\ type' = ty /\ name' = nm
        /\ IF Threw(r)
           THEN /\ printed' = <<<<r.what>>>>
                /\ pc' = "spawn"
                /\ UNCHANGED <<animal, heap>>
           ELSE /\ Cardinality(DOMAIN heap) < MaxAnimals
                /\ animal' = NewId(heap)
                /\ heap' = (NewId(heap) :> r) @@ heap
                /\ pc' = "add"
                /\ UNCHANGED printed
    /\ UNCHANGED <<choice, running, iter, pre, container, lifeVars, notifierVars,
                   workerVars, observerVars>>

\* case 1: container.addAnimal(animal); notifier.notify(animal) is entered.
StoreAnimal ==
    /\ pc = "add"
    /\ container' = addAnimal(container, animal)
    /\ ni' = 1 /\ calls' = <<>>
    /\ pc' = "notify"
    /\ UNCHANGED <<choice, type, name, animal, printed, running, iter, pre, heap,
                   lifeVars, observers, workerVars, observerVars>>

\* AnimalObserver::update called on observer o with animal a.
update(cs, o, a) == Append(cs, [observer |-> o, animal |-> a])

\* AnimalNotifier::notify ending one observer early.
NotifyDoneEarly == ni >= Len(observers)

\* AnimalNotifier::notify: the range-for has reached the end of the list.
NotifyDone == ni > Len(observers)

\* update with no lock_guard: the mutex is never waited for.
CanLockAlways == TRUE

\* std::mutex::lock returns only when no thread holds the mutex.
CanLock == coutMutex = 0

\* The thread of main(), as a writer of std::cout.
MainThread == 0

\* std::cout << "Observer: " by thread t.
PrefixChunk(t) == [thread |-> t, part |-> "prefix", text |-> <<"Observer: ">>]

\* animal->info() by thread t.
InfoChunk(t, a) == [thread |-> t, part |-> "info", text |-> info(a)]

\* The line one update call writes: "Observer: " and the animal's info line.
ObserverLine(a) == <<"Observer: ">> \o info(a)

\* AnimalNotifier::notify, one pass of the loop body: observer->update(animal),
\* which takes coutMutex, writes "Observer: " and the animal's info line, and
\* gives the mutex back.
NotifyStep ==
    /\ pc = "notify"
    /\ ~NotifyDone
    /\ CanLock
    /\ calls' = update(calls, observers[ni], animal)
    /\ out' = out \o <<PrefixChunk(MainThread), InfoChunk(MainThread, heap[animal])>>
    /\ printed' = Append(printed, ObserverLine(heap[animal]))
    /\ ni' = ni + 1
    /\ UNCHANGED <<pc, choice, type, name, animal, running, iter, pre, heapVars,
                   lifeVars, observers, workerVars, coutMutex, upc, todo, uarg>>

\* AnimalNotifier::notify returns to its caller.
NotifyReturn(next) ==
    /\ pc = "notify"
    /\ NotifyDone
    /\ pc' = next
    /\ UNCHANGED <<choice, type, name, animal, printed, running, iter, pre, heapVars,
                   lifeVars, notifierVars, workerVars, observerVars>>

NotifyReturnMain == NotifyReturn("spawn")

\* case 2: container.displayAll().
DisplayAll ==
    /\ pc = "switch" /\ choice = 2
    /\ printed' = displayAll(container, heap)
    /\ pc' = "spawn"
    /\ UNCHANGED <<choice, type, name, animal, running, iter, pre, heapVars, lifeVars,
                   notifierVars, workerVars, observerVars>>

\* case 3: container.removeAnimal(name); the erased objects are released.
RemoveAnimal ==
    /\ pc = "switch" /\ choice = 3
    /\ \E nm \in Tags :
        /\ name' = nm
        /\ container' = removeAnimal(container, heap, nm)
    /\ heap' = Release(heap, container')
    /\ pc' = "spawn"
    /\ UNCHANGED <<choice, type, animal, printed, running, iter, pre, lifeVars,
                   notifierVars, workerVars, observerVars>>

\* case 4: container.displayAnimalInfo(name).
DisplayAnimalInfo ==
    /\ pc = "switch" /\ choice = 4
    /\ \E nm \in Tags :
        /\ name' = nm
        /\ printed' = displayAnimalInfo(container, heap, nm)
    /\ pc' = "spawn"
    /\ UNCHANGED <<choice, type, animal, running, iter, pre, heapVars, lifeVars,
                   notifierVars, workerVars, observerVars>>

\* case 5: container.sortAnimals().
SortAnimals ==
    /\ pc = "switch" /\ choice = 5
    /\ container' \in sortAnimals(container, heap)
    /\ printed' = <<<<"Animals sorted.">>>>
    /\ pc' = "spawn"
    /\ UNCHANGED <<choice, type, name, animal, running, iter, pre, heap, lifeVars,
                   notifierVars, workerVars, observerVars>>

\* case 6: AnimalContainer::showInstanceCount().
ShowInstanceCount ==
    /\ pc = "switch" /\ choice = 6
    /\ printed' = <<<<"Total AnimalContainer instances: ", instanceCount>>>>
    /\ pc' = "spawn"
    /\ UNCHANGED <<choice, type, name, animal, running, iter, pre, heapVars, lifeVars,
                   notifierVars, workerVars, observerVars>>

\* case 7: running = false.
Exit ==
    /\ pc = "switch" /\ choice = 7
    /\ running' = FALSE
    /\ pc' = "spawn"
    /\ UNCHANGED <<choice, type, name, animal, printed, iter, pre, heapVars, lifeVars,
                   notifierVars, workerVars, observerVars>>

\* default: the choice is none of 1..7.
InvalidOption ==
    /\ pc = "switch" /\ choice \notin 1..7
    /\ printed' = <<<<"Invalid option. Please try again.">>>>
    /\ pc' = "spawn"
    /\ UNCHANGED <<choice, type, name, animal, running, iter, pre, heapVars, lifeVars,
                   notifierVars, workerVars, observerVars>>

\* std::thread t(threadTest, std::ref(container)).
Spawn ==
    /\ pc = "spawn"
    /\ wpc' = "started"
    /\ spawned' = spawned + 1
    /\ pc' = "join"
    /\ UNCHANGED <<choice, type, name, animal, printed, running, iter, pre, heapVars,
                   lifeVars, notifierVars, shown, observerVars>>

\* threadTest: the first line is written and the thread goes to sleep.
ThreadTestBegin ==
    /\ wpc = "started"
    /\ wpc' = "sleeping"
    /\ shown' = <<>>
    /\ UNCHANGED <<mainVars, heapVars, lifeVars, notifierVars, spawned, observerVars>>

\* threadTest: the sleep is over, container.displayAll() runs, the thread ends.
ThreadTestDisplay ==
    /\ wpc = "sleeping"
    /\ shown' = displayAll(container, heap)
    /\ wpc' = "finished"
    /\ UNCHANGED <<mainVars, heapVars, lifeVars, notifierVars, spawned, observerVars>>

\* A join that does not wait for the thread (the thread detached instead).
JoinReadyDetached == TRUE

\* t.join() returns once threadTest has returned.
JoinReady == wpc = "finished"

\* t.join(); then the while condition is tested.
Join ==
    /\ pc = "join"
    /\ JoinReady
    /\ wpc' = IF wpc = "finished" THEN "none" ELSE wpc
    /\ pc' = IF running THEN "menu" ELSE "return"
    /\ UNCHANGED <<choice, type, name, animal, printed, running, iter, pre, heapVars,
                   lifeVars, notifierVars, shown, spawned, observerVars>>

\* AnimalContainer::~AnimalContainer of object c.
Destructor(c) ==
    /\ c \in live
    /\ live' = live \ {c}
    /\ instanceCount' = instanceCount - 1
    /\ destroyed' = destroyed + 1
    /\ UNCHANGED constructed

\* return 0: main's container is destroyed, and its animals with it.
Return ==
    /\ pc = "return"
    /\ Destructor(1)
    /\ container' = <<>> /\ heap' = <<>>
    /\ pc' = "done"
    /\ UNCHANGED <<choice, type, name, animal, printed, running, iter, pre,
                   notifierVars, workerVars, observerVars>>

Next ==
    \/ ReadChoice
    \/ CreateAnimal
    \/ StoreAnimal
    \/ NotifyStep
    \/ NotifyReturnMain
    \/ DisplayAll
    \/ RemoveAnimal
    \/ DisplayAnimalInfo
    \/ SortAnimals
    \/ ShowInstanceCount
    \/ Exit
    \/ InvalidOption
    \/ Spawn
    \/ ThreadTestBegin
    \/ ThreadTestDisplay
    \/ Join
    \/ Return

Spec == Init /\ [][Next]_vars

\* ---------------------------------------------------------------- notifier
\* A caller of the notifier alone: it registers observers (any of them any
\* number of times) and notifies with one of two animals.
TwoAnimals == (1 :> Dog("Rex")) @@ (2 :> Cat("Tom"))

InitNotifier ==
    /\ pc = "idle" /\ choice = 0 /\ type = "" /\ name = ""
    /\ animal = NoAnimal /\ printed = <<>> /\ running = TRUE /\ iter = 0
    /\ heap = TwoAnimals /\ container = <<>>
    /\ pre = [container |-> <<>>, heap |-> <<>>]
    /\ instanceCount = 0 /\ live = {} /\ constructed = 0 /\ destroyed = 0
    /\ observers = <<>> /\ ni = 0 /\ calls = <<>>
    /\ wpc = "none" /\ shown = <<>> /\ spawned = 0
    /\ ObserversIdle

\* notifier.addObserver(o).
AddObserver ==
    /\ pc = "idle"
    /\ Len(observers) < MaxObservers
    /\ \E o \in ObserverIds : observers' = addObserver(observers, o)
    /\ UNCHANGED <<mainVars, heapVars, lifeVars, ni, calls, workerVars, observerVars>>

\* notifier.notify(a) is entered.
Notify ==
    /\ pc = "idle"
    /\ \E a \in DOMAIN heap : animal' = a
    /\ ni' = 1 /\ calls' = <<>>
    /\ printed' = <<>> /\ out' = <<>>
    /\ pc' = "notify"
    /\ UNCHANGED <<choice, type, name, running, iter, pre, heapVars, lifeVars,
                   observers, workerVars, coutMutex, upc, todo, uarg>>

NotifyReturnCaller == NotifyReturn("returned")

\* The caller drops its animal and what it recorded of the call, and goes on.
Resume ==
    /\ pc = "returned"
    /\ animal' = NoAnimal /\ calls' = <<>>
    /\ printed' = <<>> /\ out' = <<>>
    /\ pc' = "idle"
    /\ UNCHANGED <<choice, type, name, running, iter, pre, heapVars, lifeVars,
                   observers, ni, workerVars, coutMutex, upc, todo, uarg>>

NextNotifier ==
    \/ AddObserver
    \/ Notify
    \/ NotifyStep
    \/ NotifyReturnCaller
    \/ Resume

SpecNotifier == InitNotifier /\ [][NextNotifier]_vars

\* ---------------------------------------------------------------- observer
\* NumThreads threads, each calling AnimalDetailsObserver::update MaxCalls
\* times on one observer, with the one animal there is.
OneAnimal == (1 :> Dog("Rex"))

InitObserver ==
    /\ pc = "idle" /\ choice = 0 /\ type = "" /\ name = ""
    /\ animal = NoAnimal /\ printed = <<>> /\ running = TRUE /\ iter = 0
    /\ heap = OneAnimal /\ container = <<>>
    /\ pre = [container |-> <<>>, heap |-> <<>>]
    /\ instanceCount = 0 /\ live = {} /\ constructed = 0 /\ destroyed = 0
    /\ observers = <<>> /\ ni = 0 /\ calls = <<>>
    /\ wpc = "none" /\ shown = <<>> /\ spawned = 0
    /\ coutMutex = 0
    /\ upc = [t \in Threads |-> "idle"]
    /\ todo = [t \in Threads |-> MaxCalls]
    /\ uarg = [t \in Threads |-> NoAnimal]
    /\ out = <<>>

notObserver == <<mainVars, heapVars, lifeVars, notifierVars, workerVars>>

\* Thread t calls update(a).
CallUpdate(t) ==
    /\ upc[t] = "idle"
    /\ todo[t] > 0
    /\ \E a \in DOMAIN heap : uarg' = [uarg EXCEPT ![t] = a]
    /\ todo' = [todo EXCEPT ![t] = @ - 1]
    /\ upc' = [upc EXCEPT ![t] = "lock"]
    /\ UNCHANGED <<coutMutex, out, notObserver>>

\* std::lock_guard<std::mutex> lock(coutMutex).
Lock(t) ==
    /\ upc[t] = "lock"
    /\ CanLock
    /\ coutMutex' = t
    /\ upc' = [upc EXCEPT ![t] = "prefix"]
    /\ UNCHANGED <<todo, uarg, out, notObserver>>

\* std::cout << "Observer: ".
WritePrefix(t) ==
    /\ upc[t] = "prefix"
    /\ out' = Append(out, PrefixChunk(t))
    /\ upc' = [upc EXCEPT ![t] = "info"]
    /\ UNCHANGED <<coutMutex, todo, uarg, notObserver>>

\* animal->info().
WriteInfo(t) ==
    /\ upc[t] = "info"
    /\ out' = Append(out, InfoChunk(t, heap[uarg[t]]))
    /\ upc' = [upc EXCEPT ![t] = "unlock"]
    /\ UNCHANGED <<coutMutex, todo, uarg, notObserver>>

\* ~lock_guard at the end of update.
Unlock(t) ==
    /\ upc[t] = "unlock"
    /\ coutMutex' = 0
    /\ upc' = [upc EXCEPT ![t] = "idle"]
    /\ UNCHANGED <<todo, uarg, out, notObserver>>

\* A thread inside update keeps running.
UpdateStep(t) == Lock(t) \/ WritePrefix(t) \/ WriteInfo(t) \/ Unlock(t)

NextObserver ==
    \E t \in Threads :
        \/ CallUpdate(t)
        \/ Lock(t)
        \/ WritePrefix(t)
        \/ WriteInfo(t)
        \/ Unlock(t)

\* The scheduler lets every thread that can take a step take one.
FairSpecObserver ==
    /\ InitObserver
    /\ [][NextObserver]_vars
    /\ \A t \in Threads : WF_vars(UpdateStep(t))

\* ---------------------------------------------------------------- lifecycle
\* AnimalContainer objects made and destroyed in any order.
InitLifecycle ==
    /\ pc = "idle" /\ choice = 0 /\ type = "" /\ name = ""
    /\ animal = NoAnimal /\ printed = <<>> /\ running = TRUE /\ iter = 0
    /\ heap = <<>> /\ container = <<>>
    /\ pre = [container |-> <<>>, heap |-> <<>>]
    /\ instanceCount = 0 /\ live = {} /\ constructed = 0 /\ destroyed = 0
    /\ observers = <<>> /\ ni = 0 /\ calls = <<>>
    /\ wpc = "none" /\ shown = <<>> /\ spawned = 0
    /\ ObserversIdle

notLife == <<mainVars, heapVars, notifierVars, workerVars, observerVars>>

\* AnimalContainer::AnimalContainer().
Construct ==
    /\ constructed < MaxContainers
    /\ live' = live \cup {constructed + 1}
    /\ constructed' = constructed + 1
    /\ instanceCount' = instanceCount + 1
    /\ UNCHANGED <<destroyed, notLife>>

\* AnimalContainer(const AnimalContainer&): the class declares none, so the
\* compiler's copies the vector and leaves instanceCount alone.
CopyConstruct ==
    /\ constructed < MaxContainers
    /\ \E src \in live :
        /\ live' = live \cup {constructed + 1}
        /\ constructed' = constructed + 1
    /\ UNCHANGED <<instanceCount, destroyed, notLife>>

\* Any live object is destroyed.
Destroy ==
    /\ \E c \in live : Destructor(c)
    /\ UNCHANGED notLife

NextLifecycle ==
    \/ Construct
    \/ CopyConstruct
    \/ Destroy

SpecLifecycle == InitLifecycle /\ [][NextLifecycle]_vars

\* ---------------------------------------------------------------- properties
Supported == {"Dog", "Cat"}

\* The switch of the current iteration has run case c and the next iteration
\* has not begun.
After(c) == pc \in {"spawn", "join"} /\ choice = c

\* The position of object x in the sequence c.
Index(c, x) == CHOOSE i \in 1..Len(c) : c[i] = x

\* C1: removeAnimal(tag) leaves exactly the animals whose getType() differs
\* from tag, in their original relative order and themselves unchanged, and
\* removes every animal whose getType() equals tag; when none matches the
\* container is unchanged and nothing is reported.
C1_RemoveExact ==
    After(3) =>
        /\ container = SelectSeq(pre.container, LAMBDA id : getType(pre.heap[id]) # name)
        /\ \A id \in Range(container) : heap[id] = pre.heap[id]
        /\ DOMAIN heap = Range(container)
        /\ (\A id \in Range(pre.container) : getType(pre.heap[id]) # name)
              => container = pre.container /\ heap = pre.heap
        /\ printed = <<>>

\* Two of three animals match and are removed, the one between them stays.
C1_Witness ==
    /\ After(3)
    /\ Len(pre.container) = 3
    /\ getType(pre.heap[pre.container[1]]) = name
    /\ getType(pre.heap[pre.container[3]]) = name
    /\ container = <<pre.container[2]>>

\* No animal matches the tag and the container is not empty.
C1_WitnessNoMatch ==
    /\ After(3)
    /\ name = "Bird"
    /\ Len(container) = 2

\* C2: sortAnimals() is a stable sort by type tag: the result is a
\* permutation of the input, ascending by getType(), and two animals with the
\* same type tag keep their relative order.
C2_StableSort ==
    After(5) =>
        /\ Len(container) = Len(pre.container)
        /\ Range(container) = Range(pre.container)
        /\ IsSortedByType(container, heap)
        /\ \A i, j \in 1..Len(container) :
              (i < j /\ getType(heap[container[i]]) = getType(heap[container[j]]))
                  => Index(pre.container, container[i]) < Index(pre.container, container[j])

\* C3: sortAnimals() on a container already ordered by type tag yields the
\* same sequence of animals.
C3_SortIdempotent ==
    (After(5) /\ IsSortedByType(pre.container, pre.heap)) => container = pre.container

\* C4: createAnimal(tag, name) with a supported tag returns an animal whose
\* getType() is the tag and whose name is the name given, and no container
\* operation changes the type tag of an animal.
C4_FactoryType ==
    /\ pc = "add" =>
          /\ type \in Supported
          /\ animal \in DOMAIN heap
          /\ getType(heap[animal]) = type
          /\ heap[animal].name = name
    /\ \A id \in DOMAIN heap \cap DOMAIN pre.heap :
          getType(heap[id]) = getType(pre.heap[id])

\* A Cat has just been made while the container holds other animals.
C4_Witness ==
    /\ pc = "add"
    /\ type = "Cat" /\ name = "Tom"
    /\ Len(container) = 2

\* C5: with a type tag other than "Dog" or "Cat" the Add Animal action fails
\* with the unknown-animal-type error, which is caught and reported; the
\* container is unmodified and the loop goes on to the next iteration.
C5_UnknownType ==
    (choice = 1 /\ pc \notin {"switch", "add", "notify"} /\ type \notin Supported) =>
        /\ printed = <<<<"Unknown animal type">>>>
        /\ container = pre.container
        /\ heap = pre.heap
        /\ animal = NoAnimal
        /\ running
        /\ pc \in {"spawn", "join", "menu"}

\* The loop is back at the menu after an unknown tag, the container not empty.
C5_Witness ==
    /\ pc = "menu"
    /\ choice = 1 /\ type = "Bird"
    /\ Len(container) = 2

\* The calls notify makes once it has passed the first n observers.
Notified(n) == [i \in 1..n |-> [observer |-> observers[i], animal |-> animal]]

\* C6: notify(animal) calls update(animal) on every registered observer once
\* per registration, in registration order, and has made all the calls when it
\* returns.
C6_NotifyInOrder ==
    /\ pc = "notify" =>
          /\ ni \in 1..(Len(observers) + 1)
          /\ calls = Notified(ni - 1)
    /\ pc = "returned" => calls = Notified(Len(observers))

\* notify has returned with one observer registered twice and another once.
C6_Witness ==
    /\ pc = "returned"
    /\ observers = <<1, 2, 1>>
    /\ Len(calls) = 3

\* C7: the instance counter equals the number of live AnimalContainer
\* objects: after N constructions of any kind and M destructions it is N - M.
C7_CounterEqualsLive ==
    /\ instanceCount = Cardinality(live)
    /\ instanceCount = constructed - destroyed

\* The iteration is between its ReadChoice and its Spawn.
BeforeSpawn == pc \in {"switch", "add", "notify", "spawn"}

C8_Inv ==
    /\ spawned = iter - (IF BeforeSpawn THEN 1 ELSE 0)
    /\ wpc \in {"started", "sleeping", "finished"} => pc = "join"
    /\ pc = "join" => wpc # "none"
    /\ wpc = "finished" => shown = displayAll(container, heap)

C8_Act ==
    /\ wpc \in {"started", "sleeping"} => UNCHANGED <<heapVars, pc, choice>>
    /\ wpc' = "started" => (pc = "spawn" /\ wpc = "none")

\* C8: every iteration, whatever the choice, starts exactly one thread after
\* its operation; the thread only reads the container, and until it has ended
\* the main thread neither reads a choice nor changes the container.
C8_OneWorkerNoInterleave == []C8_Inv /\ [][C8_Act]_vars

\* The thread of the iteration in which Exit was chosen is running.
C8_Witness ==
    /\ wpc = "sleeping"
    /\ choice = 7 /\ ~running
    /\ Len(container) = 2

\* The thread of an iteration with an invalid option has ended.
C8_WitnessInvalid ==
    /\ wpc = "finished"
    /\ choice = 8
    /\ iter = 3

\* The threads between taking and giving back coutMutex.
Holders == {t \in Threads : upc[t] \in {"prefix", "info", "unlock"}}

C9_Safe ==
    /\ Cardinality(Holders) <= 1
    /\ \A t \in Holders : coutMutex = t
    /\ \A i \in 1..Len(out) :
          IF i % 2 = 1
          THEN /\ out[i].part = "prefix"
               /\ i = Len(out) => upc[out[i].thread] = "info"
          ELSE /\ out[i].part = "info"
               /\ out[i].thread = out[i - 1].thread

\* C9: of the threads calling update at most one is between acquiring and
\* releasing coutMutex, so each "Observer: " is followed by the info line of
\* the same call; and every call acquires the mutex and returns.
C9_MutexAtomicOutput ==
    /\ []C9_Safe
    /\ \A t \in Threads : (upc[t] = "lock") ~> (upc[t] = "idle")

\* One thread has written its prefix while another waits for the mutex.
C9_Witness ==
    /\ upc[1] = "info"
    /\ upc[2] = "lock"
    /\ Len(out) = 1

\* C10: Add Animal with a supported tag first appends the animal as the last
\* element (the others and their order unchanged) and only then notifies, with
\* the object that was stored; with an unsupported tag nothing is notified.
C10_AddThenNotify ==
    /\ pc = "add" => container = pre.container /\ calls = <<>>
    /\ pc = "notify" =>
          /\ container = Append(pre.container, animal)
          /\ \A i \in 1..Len(calls) : calls[i].animal = animal
    /\ (choice = 1 /\ pc \in {"spawn", "join"} /\ type \in Supported) =>
          /\ container = Append(pre.container, animal)
          /\ heap[animal] = createAnimal(type, name)
          /\ calls = <<[observer |-> 1, animal |-> animal]>>
    /\ (choice = 1 /\ pc \in {"spawn", "join"} /\ type \notin Supported) => calls = <<>>

\* The third animal has been stored and the observer told of it.
C10_Witness ==
    /\ pc = "notify"
    /\ ni = 2
    /\ Len(container) = 3
    /\ calls = <<[observer |-> 1, animal |-> container[3]]>>

====
